---- MODULE Spec2Model ----
(***************************************************************************)
(* Model of the request-scoped core of faslh/WithRepoRepo:                 *)
(*   - MessageBus (src/src/app/core/context.ts, lines 5-43)                 *)
(*   - getContext over asyncLocalStorage (context.ts, lines 53-60)          *)
(*   - authorize middleware (src/unnamed/part_000, lines 30-54)             *)
(* Each component has its own specification (SpecBus, SpecCtx, SpecAuth);   *)
(* the variables of the other components stay at their initial value.      *)
(***************************************************************************)
EXTENDS Integers, Sequences, FiniteSets, TLC

VARIABLES
    emitter,                \* #emitter: event name -> listeners, in subscription order
    pendingEventsRegistry,  \* #pendingEventsRegistry: Map event name -> resolvers
    promises,               \* the promise created by the i-th send call
    sends,                  \* history of the send calls (arguments, outcome)
    resolveLog,             \* resolve callbacks in the order they were invoked
    cur                     \* the send call on the JavaScript stack, if any

busVars == <<emitter, pendingEventsRegistry, promises, sends, resolveLog, cur>>

VARIABLES
    policies,     \* the registered policies, in registration order
    req,          \* the request being authorized: action and client address
    apc,          \* position of the authorize middleware
    applicable,   \* applicablePolicies
    idx,          \* position of the capability loop in applicablePolicies
    queried,      \* positions in applicablePolicies whose abilities were queried
    outcome,      \* what the middleware ended with
    nextCalls     \* calls of next() for the current request

authVars == <<policies, req, apc, applicable, idx, queried, outcome, nextCalls>>

VARIABLES
    current,      \* the store asyncLocalStorage.getStore() returns right now
    frames,       \* run scopes whose body is on the JavaScript stack, innermost last
    scopes,       \* every run scope entered so far
    lookups       \* the getContext calls made so far

ctxVars == <<current, frames, scopes, lookups>>

VARIABLES
    tpc,          \* position of the useTransaction call
    runners,      \* every query runner created so far
    txlog,        \* the awaited steps of the current call and how each ended
    held,         \* result of the computation, or the error the catch block holds
    tout          \* what the call returned or threw

txVars == <<tpc, runners, txlog, held, tout>>

vars == <<busVars, authVars, ctxVars, txVars>>

(***************************************************************************)
(* Bounds                                                                  *)
(***************************************************************************)
MaxSubs == 2      \* on/once calls in a behaviour
MaxSends == 2     \* send calls in a behaviour
MaxPolicies == 2  \* registered policies
MaxScopes == 2    \* run scopes entered in a behaviour
MaxLookups == 2   \* getContext calls in a behaviour
MaxTx == 2        \* useTransaction calls in a behaviour

(***************************************************************************)
(* Helpers                                                                 *)
(***************************************************************************)
Range(s) == {s[i] : i \in DOMAIN s}

RECURSIVE Reverse(_)
Reverse(s) == IF s = <<>> THEN <<>> ELSE Append(Reverse(Tail(s)), Head(s))

RECURSIVE SeqWithout(_, _)
SeqWithout(s, id) ==
    IF s = <<>> THEN <<>>
    ELSE IF Head(s).id = id THEN Tail(s)
         ELSE <<Head(s)>> \o SeqWithout(Tail(s), id)

(***************************************************************************)
(* MessageBus                                                              *)
(***************************************************************************)
Events == {"E1", "E2"}
Args == {"a", "b"}

\* The listeners a caller may pass to on/once: "pong" returns the constant
\* "pong", "echo" returns its argument, "boom" throws.
Listeners == {"pong", "echo", "boom"}
Throw == "<throw>"
NoValue == "<none>"
Undefined == "undefined"

ListenerResult(fn, args) ==
    CASE fn = "pong" -> "pong"
      [] fn = "echo" -> args
      [] fn = "boom" -> Throw

Idle == [w |-> 0, queue |-> <<>>]

\* this.#pendingEventsRegistry.get(eventName) ?? []
RegistryGet(reg, ev) == IF ev \in DOMAIN reg THEN reg[ev] ELSE <<>>

\* this.#pendingEventsRegistry.set(eventName, resolvers)
RegistrySet(reg, ev, resolvers) ==
    [e \in (DOMAIN reg) \cup {ev} |-> IF e = ev THEN resolvers ELSE reg[e]]

\* this.#pendingEventsRegistry.delete(eventName)
RegistryDelete(reg, ev) == [e \in (DOMAIN reg) \ {ev} |-> reg[e]]

\* The resolve function of a native promise: the first call settles it, any
\* later call is a no-op.  by is the send call whose emission calls resolve.
Resolve(p, result, by) ==
    IF p.status = "pending"
    THEN [status |-> "fulfilled", value |-> result, by |-> by]
    ELSE p

\* A bus that resolves only the most recently registered waiter.
ExecuteTargets_OnlyLast(reg, ev) ==
    IF RegistryGet(reg, ev) = <<>> THEN <<>>
    ELSE <<RegistryGet(reg, ev)[Len(RegistryGet(reg, ev))]>>

\* A loop that walks the waiter list from its end.
ExecuteTargets_Reversed(reg, ev) == Reverse(RegistryGet(reg, ev))

\* #execute, lines 23-26: the resolvers the loop calls, in order.
ExecuteTargets(reg, ev) == RegistryGet(reg, ev)

\* A loop that calls resolve() without the result.
ExecuteValue_Dropped(result) == Undefined

\* #execute, line 25: resolve(result)
ExecuteValue(result) == result

\* A bus that empties the event's list and keeps the entry.
ExecuteRegistry_Empty(reg, ev) == RegistrySet(reg, ev, <<>>)

\* A bus that never removes the resolved waiters.
ExecuteRegistry_Keep(reg, ev) == reg

\* A bus that clears the whole registry.
ExecuteRegistry_Clear(reg, ev) == <<>>

\* #execute, line 27: the registry after the call.
ExecuteRegistry(reg, ev) == RegistryDelete(reg, ev)

\* A bus that completes a new waiter right away with the value an earlier
\* emission of the same event computed.
SendPromise_Replay(ev, proms, snds) ==
    LET old == {i \in DOMAIN proms : snds[i].ev = ev /\ proms[i].status = "fulfilled"}
    IN IF old = {} THEN [status |-> "pending", value |-> NoValue, by |-> 0]
       ELSE LET i == CHOOSE i \in old : \A j \in old : j <= i
            IN [status |-> "fulfilled", value |-> proms[i].value, by |-> proms[i].by]

\* send, line 13: the promise send creates.
SendPromise(ev, proms, snds) == [status |-> "pending", value |-> NoValue, by |-> 0]

\* A send that registers its waiter only when a listener is subscribed.
SendRegistry_SkipUnheard(reg, ev, w, listeners) ==
    IF listeners = <<>> THEN reg
    ELSE RegistrySet(reg, ev, Append(RegistryGet(reg, ev), w))

\* send, lines 14-16: the waiter is appended to the event's list.
SendRegistry(reg, ev, w, listeners) ==
    RegistrySet(reg, ev, Append(RegistryGet(reg, ev), w))

\* An emitter that calls the most recently subscribed listener first.
EmitSnapshot_Reversed(listeners) == Reverse(listeners)

\* EventEmitter.emit calls a copy of the listener array taken when it starts,
\* in subscription order.
EmitSnapshot(listeners) == listeners

BusStart ==
    /\ emitter = [e \in Events |-> <<>>]
    /\ pendingEventsRegistry = <<>>
    /\ promises = <<>>
    /\ sends = <<>>
    /\ resolveLog = <<>>
    /\ cur = Idle

\* Subscriptions made so far to the event (a once listener leaves the emitter
\* when it fires).
SubsTo(ev) ==
    Cardinality({l.id : l \in Range(emitter[ev])}
        \cup UNION {{l.id : l \in Range(sends[i].snap)} :
                       i \in {j \in DOMAIN sends : sends[j].ev = ev}})

SubsMade == SubsTo("E1") + SubsTo("E2")

\* #emitter.on / #emitter.once: the wrapper is appended to the event's listeners.
AddListener(em, ev, fn, once) ==
    [em EXCEPT ![ev] = Append(@, [id |-> SubsTo(ev) + 1, fn |-> fn, once |-> once])]

\* on, lines 30-35
On(ev, fn) ==
    /\ cur = Idle
    /\ SubsMade < MaxSubs
    /\ emitter' = AddListener(emitter, ev, fn, FALSE)
    /\ UNCHANGED <<pendingEventsRegistry, promises, sends, resolveLog, cur>>
    /\ UNCHANGED <<authVars, ctxVars, txVars>>

\* once, lines 37-42
Once(ev, fn) ==
    /\ cur = Idle
    /\ SubsMade < MaxSubs
    /\ emitter' = AddListener(emitter, ev, fn, TRUE)
    /\ UNCHANGED <<pendingEventsRegistry, promises, sends, resolveLog, cur>>
    /\ UNCHANGED <<authVars, ctxVars, txVars>>

\* send, lines 13-18: the promise executor runs synchronously, then emit starts.
SendBegin(ev, args) ==
    /\ cur = Idle
    /\ Len(promises) < MaxSends
    /\ LET w == Len(promises) + 1 IN
        /\ pendingEventsRegistry' =
               SendRegistry(pendingEventsRegistry, ev, w, emitter[ev])
        /\ promises' = Append(promises, SendPromise(ev, promises, sends))
        /\ sends' = Append(sends,
               [ev |-> ev, args |-> args, snap |-> emitter[ev],
                fresh |-> ev \notin DOMAIN pendingEventsRegistry,
                before |-> RegistryGet(pendingEventsRegistry, ev),
                ran |-> <<>>, outcome |-> "inflight"])
        /\ cur' = [w |-> w, queue |-> EmitSnapshot(emitter[ev])]
    /\ UNCHANGED <<emitter, resolveLog>>
    /\ UNCHANGED <<authVars, ctxVars, txVars>>

\* A once wrapper that stays subscribed.
AfterPick_Keep(ev, l) == emitter

\* The emitter after the listener l of event ev was picked to run: a once
\* wrapper removes itself before it calls the listener.
AfterPick(ev, l) ==
    IF l.once THEN [emitter EXCEPT ![ev] = SeqWithout(@, l.id)] ELSE emitter

\* The wrapper of on/once (lines 31-34, 38-41) runs a listener that returns:
\* #execute resolves the current waiters with the result and clears the list.
ListenerReturns ==
    /\ cur.w # 0
    /\ cur.queue # <<>>
    /\ LET w == cur.w
           ev == sends[w].ev
           l == Head(cur.queue)
           result == ListenerResult(l.fn, sends[w].args)
           targets == ExecuteTargets(pendingEventsRegistry, ev)
       IN
        /\ result # Throw
        /\ emitter' = AfterPick(ev, l)
        /\ promises' = [i \in DOMAIN promises |->
                          IF i \in Range(targets)
                          THEN Resolve(promises[i], ExecuteValue(result), w)
                          ELSE promises[i]]
        /\ resolveLog' = resolveLog \o targets
        /\ pendingEventsRegistry' = ExecuteRegistry(pendingEventsRegistry, ev)
        /\ sends' = [sends EXCEPT ![w].ran = Append(@, l.id)]
        /\ cur' = [cur EXCEPT !.queue = Tail(@)]
    /\ UNCHANGED <<authVars, ctxVars, txVars>>

\* The wrapper runs a listener that throws: nothing catches the exception, so
\* #execute is skipped, emit stops calling listeners and send throws.
ListenerThrows ==
    /\ cur.w # 0
    /\ cur.queue # <<>>
    /\ LET w == cur.w
           ev == sends[w].ev
           l == Head(cur.queue)
       IN
        /\ ListenerResult(l.fn, sends[w].args) = Throw
        /\ emitter' = AfterPick(ev, l)
        /\ sends' = [sends EXCEPT ![w].ran = Append(@, l.id), ![w].outcome = "threw"]
        /\ cur' = Idle
    /\ UNCHANGED <<pendingEventsRegistry, promises, resolveLog>>
    /\ UNCHANGED <<authVars, ctxVars, txVars>>

\* send, line 19: emit returned, the promise is handed to the caller.
SendReturn ==
    /\ cur.w # 0
    /\ cur.queue = <<>>
    /\ sends' = [sends EXCEPT ![cur.w].outcome = "returned"]
    /\ cur' = Idle
    /\ UNCHANGED <<emitter, pendingEventsRegistry, promises, resolveLog>>
    /\ UNCHANGED <<authVars, ctxVars, txVars>>

NextBus ==
    \/ \E ev \in Events, fn \in Listeners : On(ev, fn)
    \/ \E ev \in Events, fn \in Listeners : Once(ev, fn)
    \/ \E ev \in Events, args \in Args : SendBegin(ev, args)
    \/ ListenerReturns
    \/ ListenerThrows
    \/ SendReturn

(***************************************************************************)
(* Policies and the authorize middleware                                   *)
(***************************************************************************)
Actions == {"read", "delete"}
Null == "null"
Ips == {Null, "10.0.0.1"}

\* Predicates a policy's evaluate may be: the registered Guest policy is
\* "always"; the others read the subject or the environment.
EvalKinds == {"always", "hasIp", "authenticated"}

\* Ability sets: the actions a policy's rules grant on "all"; "manage" is
\* CASL's alias for every action.
AbilitySets == (SUBSET Actions) \cup {{"manage"}}

StatusForbidden == 403

\* identity.ts: getSubject resolves to undefined for every request.
getSubject(r) == Undefined

\* getEnv: the client address of the request.
getEnv(r) == [ip |-> r.ip]

\* Policy.evaluate(subject, resource, environment)
Evaluate(p, subject, resource, env) ==
    CASE p.evaluate = "always" -> TRUE
      [] p.evaluate = "hasIp" -> env.ip # Null
      [] p.evaluate = "authenticated" -> subject # Undefined

\* abilities.can(action): a rule for the action, or for "manage".
Can(abilities, action) == action \in abilities \/ "manage" \in abilities

RECURSIVE Filter(_, _, _)
\* policies.filter((it) => it.evaluate(subject, null, env))
Filter(ps, subject, env) ==
    IF ps = <<>> THEN <<>>
    ELSE (IF Evaluate(Head(ps), subject, Null, env) THEN <<Head(ps)>> ELSE <<>>)
         \o Filter(Tail(ps), subject, env)

\* A guard that lets an empty set of applicable policies through.
NoApplicable_Never(aps) == FALSE

\* line 42: applicablePolicies.length < 1
NoApplicable(aps) == Len(aps) < 1

\* A capability check that rejects only when no applicable policy allows.
Denies_UnlessAnyAllows(aps, i, action) ==
    \A j \in DOMAIN aps : ~Can(aps[j].abilities, action)

\* line 49: throwUnlessCan(action) throws for the i-th applicable policy.
Denies(aps, i, action) == ~Can(aps[i].abilities, action)

\* line 43-45: new ProblemDetails('forbidden', 'no sufficient permissions', 403)
NoPolicyError ==
    [class |-> "ProblemDetailsException", type |-> "forbidden",
     title |-> "no sufficient permissions", status |-> StatusForbidden,
     action |-> NoValue]

\* CASL's ForbiddenError: it names the action and carries no status.
ForbiddenError(action) ==
    [class |-> "ForbiddenError", type |-> NoValue,
     title |-> NoValue, status |-> 0, action |-> action]

Ok == [class |-> "ok", type |-> NoValue, title |-> NoValue, status |-> 0,
       action |-> NoValue]
NoOutcome == [class |-> "none", type |-> NoValue, title |-> NoValue, status |-> 0,
              action |-> NoValue]

StatusInternalServerError == 500

\* problemDetailsMiddleware.koa, configured with rethrow(Error) and
\* mapToStatusCode(Error, INTERNAL_SERVER_ERROR): a ProblemDetailsException
\* surfaces as its problem details; any other Error carries no problem
\* details and ends as a server error.
Respond(err) ==
    IF err.class = "ProblemDetailsException"
    THEN [type |-> err.type, title |-> err.title, status |-> err.status]
    ELSE [type |-> NoValue, title |-> NoValue, status |-> StatusInternalServerError]

PolicySet(n) ==
    [1..n -> [evaluate : EvalKinds, abilities : AbilitySets]]

\* Policy lists of up to MaxPolicies policies; the name of a policy is its
\* position, so names are unique.
PolicyLists == UNION {PolicySet(n) : n \in 0..MaxPolicies}

\* policies.ts, lines 36-50: the registered list is the Guest policy.
RegisteredPolicies == <<[evaluate |-> "always", abilities |-> {"manage"}]>>

AuthIdle ==
    /\ req = [action |-> "read", ip |-> Null]
    /\ apc = "idle"
    /\ applicable = <<>>
    /\ idx = 0
    /\ queried = <<>>
    /\ outcome = NoOutcome
    /\ nextCalls = 0

\* lines 31-36: a request arrives, the environment is built, getSubject is awaited.
AuthBegin(action, ip) ==
    /\ apc \in {"idle", "done"}
    /\ req' = [action |-> action, ip |-> ip]
    /\ apc' = "subject"
    /\ applicable' = <<>>
    /\ idx' = 0
    /\ queried' = <<>>
    /\ outcome' = NoOutcome
    /\ nextCalls' = 0
    /\ UNCHANGED policies
    /\ UNCHANGED <<busVars, ctxVars, txVars>>

\* lines 36-46: the subject resolves, the applicable policies are collected.
AuthFilter ==
    /\ apc = "subject"
    /\ LET aps == Filter(policies, getSubject(req), getEnv(req)) IN
        /\ applicable' = aps
        /\ IF NoApplicable(aps)
           THEN /\ outcome' = NoPolicyError
                /\ apc' = "done"
                /\ idx' = 0
           ELSE /\ outcome' = outcome
                /\ apc' = "check"
                /\ idx' = 1
    /\ UNCHANGED <<policies, req, queried, nextCalls>>
    /\ UNCHANGED <<busVars, ctxVars, txVars>>

\* lines 48-50: one iteration of the capability loop.
AuthCheck ==
    /\ apc = "check"
    /\ idx <= Len(applicable)
    /\ queried' = Append(queried, idx)
    /\ IF Denies(applicable, idx, req.action)
       THEN /\ outcome' = ForbiddenError(req.action)
            /\ apc' = "done"
            /\ idx' = idx
       ELSE /\ outcome' = outcome
            /\ apc' = apc
            /\ idx' = idx + 1
    /\ UNCHANGED <<policies, req, applicable, nextCalls>>
    /\ UNCHANGED <<busVars, ctxVars, txVars>>

\* A loop that hands over to next() as soon as one policy has allowed.
LoopDone_AfterFirstAllow(aps, i) == i > 1

\* lines 48-52: the for loop has gone through every applicable policy.
LoopDone(aps, i) == i > Len(aps)

\* line 52: the loop is over, next() is called.
AuthNext ==
    /\ apc = "check"
    /\ LoopDone(applicable, idx)
    /\ nextCalls' = nextCalls + 1
    /\ apc' = "next"
    /\ UNCHANGED <<policies, req, applicable, idx, queried, outcome>>
    /\ UNCHANGED <<busVars, ctxVars, txVars>>

\* line 52: next() resolves and the middleware returns.
AuthNextReturns ==
    /\ apc = "next"
    /\ outcome' = Ok
    /\ apc' = "done"
    /\ UNCHANGED <<policies, req, applicable, idx, queried, nextCalls>>
    /\ UNCHANGED <<busVars, ctxVars, txVars>>

NextAuth ==
    \/ \E action \in Actions, ip \in Ips : AuthBegin(action, ip)
    \/ AuthFilter
    \/ AuthCheck
    \/ AuthNext
    \/ AuthNextReturns

(***************************************************************************)
(* asyncLocalStorage and getContext                                        *)
(***************************************************************************)
Contexts == {"c1", "c2"}
ContextNotFound == "Error: Context not found"

Top == IF frames = <<>> THEN 0 ELSE frames[Len(frames)]

\* A lookup that keeps the first context it found and returns it from then on.
getContext_Memo(store) ==
    LET found == {k \in DOMAIN lookups : lookups[k].result \in Contexts} IN
    IF found # {}
    THEN lookups[CHOOSE k \in found : \A j \in found : k <= j].result
    ELSE IF store = Undefined THEN ContextNotFound ELSE store

\* A lookup that hands out the store without testing it.
getContext_Unchecked(store) == store

\* getContext, lines 54-60
getContext(store) == IF store = Undefined THEN ContextNotFound ELSE store

CtxStart ==
    /\ current = Undefined
    /\ frames = <<>>
    /\ scopes = <<>>
    /\ lookups = <<>>

\* asyncLocalStorage.run(c, body): called by top-level code or by the body
\* on the stack; the body starts with c as the store.
Run(c) ==
    /\ Len(scopes) < MaxScopes
    /\ scopes' = Append(scopes,
           [ctx |-> c, status |-> "active", saved |-> Undefined,
            outer |-> current, resumed |-> FALSE, inner |-> FALSE])
    /\ current' = c
    /\ frames' = Append(frames, Len(scopes) + 1)
    /\ UNCHANGED lookups
    /\ UNCHANGED <<busVars, authVars, txVars>>

\* The code on the stack calls getContext().
Lookup ==
    /\ Len(lookups) < MaxLookups
    /\ lookups' = Append(lookups,
           [scope |-> Top,
            resumed |-> (Top # 0 /\ scopes[Top].resumed),
            afterInner |->
                IF Top = 0
                THEN \E s \in DOMAIN scopes : scopes[s].status \in {"exited", "failed"}
                ELSE scopes[Top].inner,
            result |-> getContext(current)])
    /\ UNCHANGED <<current, frames, scopes>>
    /\ UNCHANGED <<busVars, authVars, txVars>>

\* The body on the stack awaits: its continuation keeps the store, and the
\* caller goes on with the store it had.
Suspend ==
    /\ frames # <<>>
    /\ scopes' = [scopes EXCEPT ![Top].status = "suspended", ![Top].saved = current]
    /\ current' = scopes[Top].outer
    /\ frames' = SubSeq(frames, 1, Len(frames) - 1)
    /\ UNCHANGED lookups
    /\ UNCHANGED <<busVars, authVars, txVars>>

\* The event loop resumes a suspended body with the store its continuation kept.
Resume(s) ==
    /\ s \in DOMAIN scopes
    /\ frames = <<>>
    /\ scopes[s].status = "suspended"
    /\ scopes' = [scopes EXCEPT ![s].status = "active", ![s].outer = current,
                                ![s].resumed = TRUE]
    /\ current' = scopes[s].saved
    /\ frames' = <<s>>
    /\ UNCHANGED lookups
    /\ UNCHANGED <<busVars, authVars, txVars>>

\* A run that leaves the store of the scope it exits in place.
ExitStore_Keep(s) == current

\* run restores, in a finally block, the store its caller had.
ExitStore(s) == scopes[s].outer

\* The body on the stack completes or throws: run leaves its scope.  inner
\* records, for the scope that called run, that a nested scope has ended.
Exit(how) ==
    /\ frames # <<>>
    /\ scopes' = [s \in DOMAIN scopes |->
                     IF s = Top THEN [scopes[s] EXCEPT !.status = how]
                     ELSE IF Len(frames) > 1 /\ s = frames[Len(frames) - 1]
                          THEN [scopes[s] EXCEPT !.inner = TRUE]
                          ELSE scopes[s]]
    /\ current' = ExitStore(Top)
    /\ frames' = SubSeq(frames, 1, Len(frames) - 1)
    /\ UNCHANGED lookups
    /\ UNCHANGED <<busVars, authVars, txVars>>

NextCtx ==
    \/ \E c \in Contexts : Run(c)
    \/ Lookup
    \/ Suspend
    \/ \E s \in 1..MaxScopes : Resume(s)
    \/ \E how \in {"exited", "failed"} : Exit(how)

(***************************************************************************)
(* useTransaction                                                          *)
(***************************************************************************)
\* What a computation may resolve to or reject with.
TxResults == {"r1", "r2"}
TxErrors == {"e1", "e2"}

\* The error a failing step of the query runner rejects with.
StepError(op) == <<"error of", op>>

NoOutput == [kind |-> "none", value |-> NoValue]

TxIdle ==
    /\ tpc = "idle"
    /\ runners = <<>>
    /\ txlog = <<>>
    /\ held = NoValue
    /\ tout = NoOutput

Runner == Len(runners)

Logged(op, ok) == Append(txlog, [op |-> op, ok |-> ok, val |-> NoValue])

\* line 68: dataSource.createQueryRunner()
TxBegin ==
    /\ tpc \in {"idle", "returned", "threw"}
    /\ Len(runners) < MaxTx
    /\ runners' = Append(runners,
           [connected |-> FALSE, tx |-> "none", released |-> FALSE])
    /\ tpc' = "connect"
    /\ txlog' = <<>>
    /\ held' = NoValue
    /\ tout' = NoOutput
    /\ UNCHANGED <<busVars, authVars, ctxVars>>

\* line 69: await queryRunner.connect(), outside the try block
TxConnect(ok) ==
    /\ tpc = "connect"
    /\ txlog' = Logged("connect", ok)
    /\ IF ok
       THEN /\ runners' = [runners EXCEPT ![Runner].connected = TRUE]
            /\ tpc' = "start"
            /\ tout' = tout
       ELSE /\ runners' = runners
            /\ tpc' = "threw"
            /\ tout' = [kind |-> "throw", value |-> StepError("connect")]
    /\ UNCHANGED held
    /\ UNCHANGED <<busVars, authVars, ctxVars>>

\* line 70: await queryRunner.startTransaction(), outside the try block
TxStart(ok) ==
    /\ tpc = "start"
    /\ txlog' = Logged("start", ok)
    /\ IF ok
       THEN /\ runners' = [runners EXCEPT ![Runner].tx = "active"]
            /\ tpc' = "compute"
            /\ tout' = tout
       ELSE /\ runners' = runners
            /\ tpc' = "threw"
            /\ tout' = [kind |-> "throw", value |-> StepError("start")]
    /\ UNCHANGED held
    /\ UNCHANGED <<busVars, authVars, ctxVars>>

\* line 72: await computation(queryRunner.manager); a rejection enters the
\* catch block with the computation's error.
TxCompute(r) ==
    /\ tpc = "compute"
    /\ txlog' = Append(txlog, [op |-> "compute", ok |-> r \in TxResults, val |-> r])
    /\ held' = r
    /\ tpc' = IF r \in TxResults THEN "commit" ELSE "rollback"
    /\ UNCHANGED <<runners, tout>>
    /\ UNCHANGED <<busVars, authVars, ctxVars>>

\* lines 73-74: the runner when the commit went through and result is returned.
ReturnRunner(rn) == [rn EXCEPT !.tx = "committed"]

\* lines 73-74: await queryRunner.commitTransaction(); return result.  A
\* rejection enters the catch block with the commit's error.
TxCommit(ok) ==
    /\ tpc = "commit"
    /\ txlog' = Logged("commit", ok)
    /\ IF ok
       THEN /\ runners' = [runners EXCEPT ![Runner] = ReturnRunner(@)]
            /\ tpc' = "returned"
            /\ tout' = [kind |-> "return", value |-> held]
            /\ held' = held
       ELSE /\ runners' = runners
            /\ tpc' = "rollback"
            /\ tout' = tout
            /\ held' = StepError("commit")
    /\ UNCHANGED <<busVars, authVars, ctxVars>>

\* line 76: await queryRunner.rollbackTransaction(), inside the catch block
TxRollback(ok) ==
    /\ tpc = "rollback"
    /\ txlog' = Logged("rollback", ok)
    /\ IF ok
       THEN /\ runners' = [runners EXCEPT ![Runner].tx = "rolledback"]
            /\ tpc' = "release"
            /\ tout' = tout
       ELSE /\ runners' = runners
            /\ tpc' = "threw"
            /\ tout' = [kind |-> "throw", value |-> StepError("rollback")]
    /\ UNCHANGED held
    /\ UNCHANGED <<busVars, authVars, ctxVars>>

\* A catch block that swallows the error and returns undefined.
CatchOutput_Swallow(error) == [kind |-> "return", value |-> Undefined]

\* line 79: throw error
CatchOutput(error) == [kind |-> "throw", value |-> error]

\* lines 77-79: await queryRunner.release(); queryRunner = null; throw error
TxRelease(ok) ==
    /\ tpc = "release"
    /\ txlog' = Logged("release", ok)
    /\ IF ok
       THEN /\ runners' = [runners EXCEPT ![Runner].released = TRUE]
            /\ tpc' = IF CatchOutput(held).kind = "throw" THEN "threw" ELSE "returned"
            /\ tout' = CatchOutput(held)
       ELSE /\ runners' = runners
            /\ tpc' = "threw"
            /\ tout' = [kind |-> "throw", value |-> StepError("release")]
    /\ UNCHANGED held
    /\ UNCHANGED <<busVars, authVars, ctxVars>>

NextTx ==
    \/ TxBegin
    \/ \E ok \in BOOLEAN : TxConnect(ok)
    \/ \E ok \in BOOLEAN : TxStart(ok)
    \/ \E r \in TxResults \cup TxErrors : TxCompute(r)
    \/ \E ok \in BOOLEAN : TxCommit(ok)
    \/ \E ok \in BOOLEAN : TxRollback(ok)
    \/ \E ok \in BOOLEAN : TxRelease(ok)

(***************************************************************************)
(* Specifications                                                          *)
(***************************************************************************)
\* The bus alone: the registered policies, no request, no run scope.
InitBus ==
    /\ BusStart
    /\ policies = RegisteredPolicies /\ AuthIdle
    /\ CtxStart
    /\ TxIdle

SpecBus == InitBus /\ [][NextBus]_vars

\* The middleware over every policy list of up to MaxPolicies policies.
InitAuth ==
    /\ BusStart
    /\ policies \in PolicyLists /\ AuthIdle
    /\ CtxStart
    /\ TxIdle

SpecAuth == InitAuth /\ [][NextAuth]_vars

\* The context store alone.
InitCtx ==
    /\ BusStart
    /\ policies = RegisteredPolicies /\ AuthIdle
    /\ CtxStart
    /\ TxIdle

SpecCtx == InitCtx /\ [][NextCtx]_vars

\* useTransaction alone.
InitTx ==
    /\ BusStart
    /\ policies = RegisteredPolicies /\ AuthIdle
    /\ CtxStart
    /\ TxIdle

SpecTx == InitTx /\ [][NextTx]_vars

(***************************************************************************)
(* Properties of the authorize middleware (SpecAuth)                       *)
(***************************************************************************)
\* The applicable policies, stated on the policy list itself.
ApplicableSet ==
    {i \in DOMAIN policies :
        Evaluate(policies[i], getSubject(req), Null, getEnv(req))}

AllPermit == \A i \in ApplicableSet : Can(policies[i].abilities, req.action)

AuthDecided == apc \in {"next", "done"}

\* C1: when at least one policy is applicable, authorize(a) calls next and
\* ends ok if and only if every applicable policy permits a; one applicable
\* policy that denies a makes it fail with the ForbiddenError for a.
C1_UnanimousConsent ==
    (AuthDecided /\ ApplicableSet # {}) =>
        /\ (nextCalls = 1) <=> AllPermit
        /\ apc = "done" => ((outcome = Ok) <=> AllPermit)
        /\ ~AllPermit => outcome = ForbiddenError(req.action)

C1_Witness ==
    /\ apc = "done"
    /\ \E i, j \in ApplicableSet :
          /\ Can(policies[i].abilities, req.action)
          /\ ~Can(policies[j].abilities, req.action)
    /\ outcome = ForbiddenError(req.action)
    /\ nextCalls = 0

\* C2: when no policy evaluates true (the empty list included), authorize(a)
\* fails with the 403 problem "no sufficient permissions", whatever the
\* ability sets are, and no ability set is queried.
C2_NoApplicablePolicy ==
    (apc \in {"check", "next", "done"} /\ ApplicableSet = {}) =>
        /\ apc = "done"
        /\ outcome = NoPolicyError
        /\ outcome.status = 403
        /\ queried = <<>>
        /\ nextCalls = 0

C2_Witness ==
    /\ apc = "done"
    /\ ApplicableSet = {}
    /\ \E i \in DOMAIN policies : Can(policies[i].abilities, req.action)
    /\ outcome = NoPolicyError

(***************************************************************************)
(* Properties of the message bus (SpecBus)                                 *)
(***************************************************************************)
\* The value the first listener subscribed when send w was called returns
\* for the arguments of w.
FirstResult(w) == ListenerResult(sends[w].snap[1].fn, sends[w].args)

\* The waiters pending for the event of send w at its emission, its own included.
PendingAt(w) == Range(sends[w].before) \cup {w}

\* C3: send(E, args) with one handler subscribed to E that returns V for args
\* returns a promise that is fulfilled with V.
C3_SendResolvesToHandlerValue ==
    \A w \in DOMAIN sends :
        (/\ Len(sends[w].snap) = 1
         /\ FirstResult(w) # Throw
         /\ sends[w].outcome # "inflight") =>
            /\ sends[w].outcome = "returned"
            /\ promises[w].status = "fulfilled"
            /\ promises[w].value = FirstResult(w)

C3_Witness ==
    \E w \in DOMAIN sends :
        /\ Len(sends[w].snap) = 1
        /\ sends[w].snap[1].fn = "pong"
        /\ sends[w].outcome = "returned"
        /\ promises[w].value = "pong"

\* C4: the waiters pending for E at the emission of a send(E) call complete
\* with the same value as that call; with one subscriber returning V, every
\* one of them completes with V.
C4_PendingWaitersShareValue ==
    \A w \in DOMAIN sends :
        /\ promises[w].status = "fulfilled" =>
              \A u \in PendingAt(w) : promises[u] = promises[w]
        /\ (/\ Len(sends[w].snap) = 1
            /\ FirstResult(w) # Throw
            /\ sends[w].outcome = "returned") =>
              \A u \in PendingAt(w) :
                  /\ promises[u].status = "fulfilled"
                  /\ promises[u].value = FirstResult(w)

C4_Witness ==
    \E w \in DOMAIN sends :
        /\ sends[w].before # <<>>
        /\ Len(sends[w].snap) = 1
        /\ sends[w].outcome = "returned"
        /\ sends[w].args # sends[sends[w].before[1]].args
        /\ \A u \in PendingAt(w) :
              promises[u].status = "fulfilled" /\ promises[u].value = sends[w].args

\* Send w registered its waiter after an emission of the same event had
\* resolved and cleared the event's waiter list.
AfterClear(w) ==
    /\ sends[w].fresh
    /\ \E k \in 1..(w - 1) :
          /\ sends[k].ev = sends[w].ev
          /\ \E u \in DOMAIN promises : promises[u].by = k

\* C5: a waiter registered for E after E's list was resolved and cleared
\* starts a list of its own, stays registered while it is pending, and is
\* completed only by its own or a later emission of E, with the value that
\* emission computes.
C5_NoRetroactiveResolution ==
    \A w \in DOMAIN sends :
        AfterClear(w) =>
            /\ (cur.w = w /\ sends[w].ran = <<>>) =>
                  pendingEventsRegistry[sends[w].ev] = <<w>>
            /\ promises[w].status = "pending" =>
                  /\ sends[w].ev \in DOMAIN pendingEventsRegistry
                  /\ w \in Range(pendingEventsRegistry[sends[w].ev])
            /\ promises[w].status = "fulfilled" =>
                  /\ promises[w].by >= w
                  /\ sends[promises[w].by].ev = sends[w].ev
                  /\ promises[w].value = FirstResult(promises[w].by)

C5_Witness ==
    \E w \in DOMAIN sends :
        /\ AfterClear(w)
        /\ promises[w].status = "fulfilled"
        /\ \E k \in 1..(w - 1) :
              /\ sends[k].ev = sends[w].ev
              /\ promises[k].status = "fulfilled"
              /\ promises[k].value # promises[w].value

\* The listener of send w's snapshot that has the subscription id.
ListenerOf(w, id) ==
    CHOOSE l \in Range(sends[w].snap) : l.id = id

\* A listener that ran in the emission of send w threw.
ThrewIn(w) ==
    \E i \in DOMAIN sends[w].ran :
        ListenerResult(ListenerOf(w, sends[w].ran[i]).fn, sends[w].args) = Throw

\* C6: when a handler of E throws, the failure does not escape send, every
\* waiter pending for E is completed with a failure, and E's waiter list is
\* cleared.
C6_HandlerFailureDelivered ==
    \A w \in DOMAIN sends :
        ThrewIn(w) =>
            /\ sends[w].outcome # "threw"
            /\ \A u \in PendingAt(w) : promises[u].status # "pending"
            /\ sends[w].ev \notin DOMAIN pendingEventsRegistry

\* C7 as stated: a send(E) called with no handler subscribed to E returns a
\* promise that stays pending whatever is subscribed or sent later.
C7_NeverCompletes ==
    \A w \in DOMAIN sends :
        sends[w].snap = <<>> => promises[w].status = "pending"

\* C7, amended: a send(E) called with no handler subscribed to E leaves its
\* waiter pending in E's list; only a later send(E) whose first handler
\* returns completes it, with that handler's return value.
C7_PendingUntilLaterEmission ==
    \A w \in DOMAIN sends :
        sends[w].snap = <<>> =>
            \/ /\ promises[w].status = "pending"
               /\ sends[w].ev \in DOMAIN pendingEventsRegistry
               /\ w \in Range(pendingEventsRegistry[sends[w].ev])
            \/ /\ promises[w].status = "fulfilled"
               /\ promises[w].by > w
               /\ sends[promises[w].by].ev = sends[w].ev
               /\ sends[promises[w].by].snap # <<>>
               /\ promises[w].value = FirstResult(promises[w].by)

C7_Witness ==
    \E w \in DOMAIN sends :
        /\ sends[w].snap = <<>>
        /\ sends[w].outcome = "returned"
        /\ promises[w].status = "fulfilled"
        /\ promises[w].by > w

\* The subscription ids of the listeners subscribed when send w was called,
\* in subscription order.
SnapIds(w) == [i \in DOMAIN sends[w].snap |-> sends[w].snap[i].id]

\* Every listener of send w's snapshot returns for the arguments of w.
AllReturn(w) ==
    \A i \in DOMAIN sends[w].snap :
        ListenerResult(sends[w].snap[i].fn, sends[w].args) # Throw

\* The state part of C8: which handlers ran, and the value the waiters got.
C8_FirstHandlerWins ==
    \A w \in DOMAIN sends :
        Len(sends[w].snap) > 1 =>
            /\ (AllReturn(w) /\ sends[w].outcome = "returned") =>
                  sends[w].ran = SnapIds(w)
            /\ (sends[w].ran # <<>> /\ FirstResult(w) # Throw) =>
                  /\ sends[w].ran[1] = sends[w].snap[1].id
                  /\ \A u \in PendingAt(w) :
                        /\ promises[u].status = "fulfilled"
                        /\ promises[u].by = w
                        /\ promises[u].value = FirstResult(w)

\* The step part of C8: a fulfilled promise keeps its value.
C8_Settled ==
    \A u \in DOMAIN promises :
        promises[u].status = "fulfilled" => promises'[u] = promises[u]

Live(s) == scopes[s].status \in {"active", "suspended"}

\* C9: every lookup made by the body of a run scope, before or after a
\* suspension, returns the context that scope was run with, whatever other
\* scopes run in between.
C9_ScopesIsolated ==
    \A k \in DOMAIN lookups :
        lookups[k].scope # 0 =>
            lookups[k].result = scopes[lookups[k].scope].ctx

C9_Witness ==
    \E k \in DOMAIN lookups :
        LET a == lookups[k].scope IN
        /\ a # 0
        /\ lookups[k].resumed
        /\ lookups[k].result = scopes[a].ctx
        /\ \E b \in DOMAIN scopes :
              /\ b # a
              /\ scopes[b].ctx # scopes[a].ctx
              /\ scopes[b].resumed
              /\ Live(a) /\ Live(b)

\* C10: getContext fails with "Context not found" on every call made outside
\* a run scope, and inside a run scope it returns a context without failing.
C10_NotFoundOutsideScope ==
    \A k \in DOMAIN lookups :
        /\ lookups[k].scope = 0 => lookups[k].result = ContextNotFound
        /\ lookups[k].scope # 0 => lookups[k].result \in Contexts

C10_Witness ==
    /\ Len(lookups) >= 2
    /\ \A k \in DOMAIN lookups :
          lookups[k].scope = 0 /\ lookups[k].result = ContextNotFound
    /\ \E s \in DOMAIN scopes : scopes[s].status = "suspended"

\* C11: an inner run shadows the outer context only while its body is on the
\* stack: the store is always the context of the innermost scope on the stack
\* and undefined when none is, and a lookup made after a nested scope
\* completed or failed returns the outer scope's context (none outside).
C11_OuterContextRestored ==
    /\ current = IF frames = <<>> THEN Undefined ELSE scopes[Top].ctx
    /\ \A k \in DOMAIN lookups :
          lookups[k].afterInner =>
              lookups[k].result =
                  IF lookups[k].scope = 0 THEN ContextNotFound
                  ELSE scopes[lookups[k].scope].ctx

C11_Witness ==
    \E j, k \in DOMAIN lookups :
        LET a == lookups[j].scope IN
        /\ a # 0
        /\ lookups[j].result = scopes[a].ctx
        /\ lookups[j].afterInner
        /\ Len(scopes) = 2
        /\ \E b \in DOMAIN scopes :
              /\ b # a
              /\ scopes[b].status = "failed"
              /\ scopes[b].ctx # scopes[a].ctx
        /\ lookups[k].scope = 0
        /\ lookups[k].afterInner
        /\ lookups[k].result = ContextNotFound

AuthFailed == apc = "done" /\ outcome # Ok

\* C12: both authorization failures surface as a structured error with a
\* machine-readable kind, a title and status 403, and the kind tells a missing
\* applicable policy from a denied action.
C12_FailuresSurfaceAs403 ==
    AuthFailed =>
        /\ Respond(outcome).status = 403
        /\ Respond(outcome).type # NoValue
        /\ Respond(outcome).title # NoValue
        /\ (Respond(outcome).type = Respond(NoPolicyError).type) <=> (ApplicableSet = {})

\* C16: next() is called at most once per request, only after the subject has
\* resolved, the policies were evaluated and every applicable policy's
\* abilities were queried and allowed the action; it is never called when
\* authorization fails.
C16_NextOnlyAfterAllChecks ==
    /\ nextCalls <= 1
    /\ nextCalls = 1 =>
          /\ apc \in {"next", "done"}
          /\ outcome \in {NoOutcome, Ok}
          /\ applicable = Filter(policies, getSubject(req), getEnv(req))
          /\ applicable # <<>>
          /\ queried = [i \in 1..Len(applicable) |-> i]
          /\ \A i \in DOMAIN applicable : Can(applicable[i].abilities, req.action)
    /\ AuthFailed => nextCalls = 0

C16_Witness ==
    /\ apc = "done"
    /\ outcome = Ok
    /\ nextCalls = 1
    /\ Len(applicable) = 2
    /\ queried = <<1, 2>>

(***************************************************************************)
(* Properties of useTransaction (SpecTx)                                   *)
(***************************************************************************)
TxEnded == tpc \in {"returned", "threw"}

Did(op) == \E i \in DOMAIN txlog : txlog[i].op = op
Succeeded(op) == \E i \in DOMAIN txlog : txlog[i].op = op /\ txlog[i].ok
Failed(op) == \E i \in DOMAIN txlog : txlog[i].op = op /\ ~txlog[i].ok

\* What the computation of the current call resolved to or rejected with.
Computed == txlog[CHOOSE i \in DOMAIN txlog : txlog[i].op = "compute"].val

\* The success half of C13: a result is returned only after the computation
\* succeeded and the commit went through, and commit is called exactly when
\* the computation succeeded.
TxSuccessPath ==
    /\ tout.kind = "return" =>
          /\ Succeeded("compute") /\ Succeeded("commit")
          /\ tout.value = Computed
          /\ runners[Runner].tx = "committed"
          /\ ~Did("rollback")
    /\ Succeeded("compute") <=> Did("commit")
    /\ (Succeeded("compute") /\ Succeeded("commit")) => tout.kind = "return"

CatchEndsWith(error) ==
    IF Failed("rollback") THEN StepError("rollback")
    ELSE IF Failed("release") THEN StepError("release")
    ELSE error

C17_RunnerReleased ==
    \A i \in DOMAIN runners :
        (runners[i].connected /\ (i < Runner \/ TxEnded)) => runners[i].released

(***************************************************************************)
(* Order, cleanup and frame properties of the message bus (SpecBus)        *)
(***************************************************************************)
\* The waiters of event ev, in the order their resolvers were called.
ResolvedOf(ev) == SelectSeq(resolveLog, LAMBDA u : sends[u].ev = ev)

\* C14: within one event name, waiters are completed in the order in which
\* their send calls registered them: a resolver called earlier belongs to an
\* earlier send of that event.
C14_FifoWithinEvent ==
    \A ev \in Events :
        \A i, j \in DOMAIN ResolvedOf(ev) :
            i < j => ResolvedOf(ev)[i] < ResolvedOf(ev)[j]

\* One emission completed two waiters of its event, the older one first.
C14_Witness ==
    \E i \in DOMAIN resolveLog :
        /\ i + 1 \in DOMAIN resolveLog
        /\ sends[resolveLog[i]].ev = sends[resolveLog[i + 1]].ev
        /\ promises[resolveLog[i]].by = promises[resolveLog[i + 1]].by
        /\ resolveLog[i] < resolveLog[i + 1]

\* Some handler of send w has run and returned normally.
ReturnedIn(w) ==
    \E i \in DOMAIN sends[w].ran :
        ListenerResult(ListenerOf(w, sends[w].ran[i]).fn, sends[w].args) # Throw

\* No send of the same event was made after send w.
LatestOfEvent(w) == \A k \in DOMAIN sends : k > w => sends[k].ev # sends[w].ev

\* C15: after a send of E whose emission reached a handler that returned
\* normally, and until the next send of E, the registry holds no entry for E
\* and every waiter that was pending for E is completed; no completed waiter
\* is ever in the registry.
C15_RegistryClearedAfterEmission ==
    /\ \A w \in DOMAIN sends :
          (ReturnedIn(w) /\ LatestOfEvent(w)) =>
              /\ sends[w].ev \notin DOMAIN pendingEventsRegistry
              /\ \A u \in PendingAt(w) : promises[u].status = "fulfilled"
    /\ \A ev \in DOMAIN pendingEventsRegistry :
          \A i \in DOMAIN pendingEventsRegistry[ev] :
              promises[pendingEventsRegistry[ev][i]].status = "pending"

\* A send found an older waiter pending, reached a returning handler and
\* has returned: the event has no registry entry.
C15_Witness ==
    \E w \in DOMAIN sends :
        /\ sends[w].outcome = "returned"
        /\ sends[w].before # <<>>
        /\ ReturnedIn(w)
        /\ LatestOfEvent(w)
        /\ sends[w].ev \notin DOMAIN pendingEventsRegistry

\* C18: each waiter's resolution callback is invoked at most once, whether
\* by a later emission or by another handler of the same emission.
C18_ResolverCalledAtMostOnce ==
    \A i, j \in DOMAIN resolveLog : i # j => resolveLog[i] # resolveLog[j]

\* A waiter was completed and a second handler of the same emission
\* returned after it, or a later emission of the event reached a handler.
C18_Witness ==
    \E u \in Range(resolveLog), w \in DOMAIN sends :
        /\ sends[w].ev = sends[u].ev
        /\ \/ /\ promises[u].by = w
              /\ Len(sends[w].ran) = 2
              /\ AllReturn(w)
           \/ /\ promises[u].by < w
              /\ ReturnedIn(w)

\* The once listeners that ran during send w.
OnceRan(w) == {id \in Range(sends[w].ran) : ListenerOf(w, id).once}

\* The listeners subscribed to event ev now.
SubscribedIds(ev) == {emitter[ev][i].id : i \in DOMAIN emitter[ev]}

\* C19: a once handler runs for at most one emission of its event and is
\* unsubscribed when it fires; a later send of the event that finds no
\* subscriber runs no handler and leaves its own waiter pending in the
\* registry.
C19_OnceRunsForOneEmission ==
    \A w \in DOMAIN sends :
        /\ OnceRan(w) \cap SubscribedIds(sends[w].ev) = {}
        /\ \A v \in DOMAIN sends :
              (w < v /\ sends[v].ev = sends[w].ev /\ OnceRan(w) # {}) =>
                  /\ OnceRan(w) \cap Range(SnapIds(v)) = {}
                  /\ OnceRan(w) \cap Range(sends[v].ran) = {}
                  /\ (sends[v].snap = <<>> /\ LatestOfEvent(v)) =>
                        /\ sends[v].ran = <<>>
                        /\ promises[v].status = "pending"
                        /\ v \in Range(RegistryGet(pendingEventsRegistry, sends[v].ev))

\* A once handler fired for one send; a later send of the event found no
\* subscriber, returned, and its waiter is pending in the registry.
C19_Witness ==
    \E w, v \in DOMAIN sends :
        /\ w < v
        /\ sends[v].ev = sends[w].ev
        /\ OnceRan(w) # {}
        /\ sends[v].snap = <<>>
        /\ sends[v].outcome = "returned"
        /\ promises[v].status = "pending"

\* The events a step acts for: the event of the send in progress before or
\* after the step; a subscription acts on the emitter only.
ActingEvents == {sends'[k].ev : k \in {cur.w, cur'.w} \ {0}}

\* The waiters of event e are the same before and after the step.
WaitersUnchanged(e) ==
    /\ (e \in DOMAIN pendingEventsRegistry') = (e \in DOMAIN pendingEventsRegistry)
    /\ RegistryGet(pendingEventsRegistry', e) = RegistryGet(pendingEventsRegistry, e)
    /\ \A u \in DOMAIN promises : sends[u].ev = e => promises'[u] = promises[u]

\* C20: send(E), subscribing to E and running E's handlers neither complete
\* nor remove a waiter registered under another event name.
C20_OtherEventsUntouched ==
    [][\A e \in Events \ ActingEvents : WaitersUnchanged(e)]_vars

\* A send of one event was fulfilled while an older waiter of another event
\* stays pending in the registry.
C20_Witness ==
    \E u, w \in DOMAIN sends :
        /\ u < w
        /\ sends[u].ev # sends[w].ev
        /\ sends[w].outcome = "returned"
        /\ promises[w].status = "fulfilled"
        /\ promises[u].status = "pending"
        /\ u \in Range(RegistryGet(pendingEventsRegistry, sends[u].ev))

====
